---- MODULE Spec2Model ----
(***************************************************************************)
(* Model of extensions/kozani-ext/src/extension.ts: the GitHub session      *)
(* helper, the streaming request helper streamFromBackend, and the three    *)
(* entry points that use them (the language-model provider, the chat        *)
(* participant and the kozani-ext.signIn command).                          *)
(*                                                                         *)
(* One behaviour of the model is one invocation of one entry point.  The    *)
(* host (identity broker, cancellation token, fetch, the response body      *)
(* reader) is the environment: its answers are chosen nondeterministically. *)
(* Every await of the source is a point where the environment may act.      *)
(***************************************************************************)
EXTENDS Integers, Sequences, FiniteSets, TLC

\* ------------------------------------------------------------------ bounds
MaxMsgs == 2      \* messages handed to the language-model provider
MaxChunks == 3    \* chunks read from one response body
MaxBytes == 3     \* bytes received over one response body

\* --------------------------------------------------------------- constants
KOZANI_API_URL == "http://localhost:5000"

Undefined == [accessToken |-> "", label |-> ""]
TheSession == [accessToken |-> "gho_token", label |-> "octocat"]

\* vscode.LanguageModelChatMessageRole
RoleUser == 1
RoleAssistant == 2

TextPart(v) == [isText |-> TRUE, value |-> v]
OtherPart == [isText |-> FALSE, value |-> ""]

\* The chat messages the host may hand to the provider.
HostMessages ==
    { [role |-> RoleUser, content |-> <<TextPart("hi")>>],
      [role |-> RoleAssistant, content |-> <<TextPart("o"), OtherPart, TextPart("k")>>] }

RECURSIVE SeqsUpTo(_, _)
SeqsUpTo(S, n) ==
    IF n = 0 THEN {<<>>}
    ELSE LET shorter == SeqsUpTo(S, n - 1)
         IN  shorter \cup {Append(s, x) : s \in {t \in shorter : Len(t) = n - 1}, x \in S}

Prompts == {"", "hi"}

\* Bytes a response body is built from: an ASCII letter, the lead byte of a
\* two-byte UTF-8 sequence and a continuation byte (0xC3 0xA9 is U+00E9).
BodyBytes == {97, 195, 169}

StatusCodes == {200, 404, 500}

\* ------------------------------------------------------- thrown values
\* What a catch clause can tell about a thrown value: whether it is an Error
\* instance, its name, its message, and the status code the message quotes
\* (0 when it quotes none).
AbortError ==
    [isError |-> TRUE, name |-> "AbortError", message |-> "This operation was aborted",
     status |-> 0]
\* What the awaited fetch / reader.read() may reject with besides the abort
\* reason.  The catch clauses receive a value of unknown type and test
\* `instanceof Error` themselves (lines 126, 178), so both kinds are kept.
NetworkErrors ==
    { [isError |-> TRUE, name |-> "TypeError", message |-> "fetch failed", status |-> 0],
      [isError |-> FALSE, name |-> "", message |-> "", status |-> 0] }
NoThrow == [isError |-> FALSE, name |-> "", message |-> "none", status |-> 0]

\* line 47: new Error(`API error: ${response.status} ${response.statusText}`)
ApiError(status) ==
    [isError |-> TRUE, name |-> "Error", message |-> "API error", status |-> status]

\* line 52
NoBodyError ==
    [isError |-> TRUE, name |-> "Error", message |-> "No response body", status |-> 0]

\* line 46: response.ok is true for the statuses 200..299
ResponseOkAny(status) == status >= 200
ResponseOk(status) == status >= 200 /\ status <= 299

\* ------------------------------------------------------ TextDecoder (utf-8)
\* The state of a TextDecoder: the UTF-8 decoder's code point, bytes seen,
\* bytes needed and the bounds of the next byte, whether a BOM was handled,
\* and the "do not flush" flag the previous decode() call left.
FreshDecoder ==
    [cp |-> 0, seen |-> 0, needed |-> 0, lower |-> 128, upper |-> 191,
     bomSeen |-> FALSE, doNotFlush |-> FALSE]

ResetSequence(st) ==
    [st EXCEPT !.cp = 0, !.seen = 0, !.needed = 0, !.lower = 128, !.upper = 191]

Replacement == 65533
ByteOrderMark == 65279

\* The UTF-8 decoder run over bytes; out collects the code points emitted.
RECURSIVE Utf8Run(_, _, _)
Utf8Run(st, bytes, out) ==
    IF bytes = <<>> THEN [st |-> st, out |-> out]
    ELSE
      LET b == Head(bytes)
          rest == Tail(bytes)
      IN
      IF st.needed = 0 THEN
        CASE b <= 127 -> Utf8Run(st, rest, Append(out, b))
          [] b >= 194 /\ b <= 223 ->
               Utf8Run([st EXCEPT !.needed = 1, !.cp = b % 32], rest, out)
          [] b >= 224 /\ b <= 239 ->
               Utf8Run([st EXCEPT !.needed = 2, !.cp = b % 16,
                                  !.lower = IF b = 224 THEN 160 ELSE 128,
                                  !.upper = IF b = 237 THEN 159 ELSE 191], rest, out)
          [] b >= 240 /\ b <= 244 ->
               Utf8Run([st EXCEPT !.needed = 3, !.cp = b % 8,
                                  !.lower = IF b = 240 THEN 144 ELSE 128,
                                  !.upper = IF b = 244 THEN 143 ELSE 191], rest, out)
          [] OTHER -> Utf8Run(st, rest, Append(out, Replacement))
      ELSE IF b < st.lower \/ b > st.upper THEN
        \* the byte is put back and decoded again from the reset state
        Utf8Run(ResetSequence(st), bytes, Append(out, Replacement))
      ELSE
        LET cp == st.cp * 64 + (b % 64)
        IN  IF st.seen + 1 # st.needed
            THEN Utf8Run([st EXCEPT !.cp = cp, !.seen = st.seen + 1,
                                    !.lower = 128, !.upper = 191], rest, out)
            ELSE Utf8Run(ResetSequence(st), rest, Append(out, cp))

\* decoder.decode(value, { stream }): the new decoder state and the text.
DecodeWith(dec, bytes, stream) ==
    LET start == IF dec.doNotFlush THEN dec ELSE FreshDecoder
        run == Utf8Run(start, bytes, <<>>)
        flushed == IF ~stream /\ run.st.needed # 0
                   THEN [st |-> ResetSequence(run.st), out |-> Append(run.out, Replacement)]
                   ELSE run
        text == IF ~flushed.st.bomSeen /\ flushed.out # <<>> /\ Head(flushed.out) = ByteOrderMark
                THEN Tail(flushed.out) ELSE flushed.out
        seen == flushed.st.bomSeen \/ flushed.out # <<>>
    IN  [dec |-> [flushed.st EXCEPT !.bomSeen = seen, !.doNotFlush = stream],
         text |-> text]

\* line 59: decoder.decode(value, { stream: true })
DecodeFlushing(dec, bytes) == DecodeWith(dec, bytes, FALSE)
Decode(dec, bytes) == DecodeWith(dec, bytes, TRUE)


\* ------------------------------------------------------------ UI sink
\* What the handlers hand to the host's progress / response sink.  text is
\* the relayed chunk (code points); note stands for the fixed wording.
Part(kind, text, note, namesUrl) ==
    [kind |-> kind, text |-> text, note |-> note, namesUrl |-> namesUrl]

\* line 98 (provider) and line 160 (participant)
SignInPrompt(h) ==
    IF h = "provider"
    THEN Part("signin", <<>>, <<"Please sign in with GitHub to use Kozani.">>, FALSE)
    ELSE Part("signin", <<>>, <<"Authentication required">>, FALSE)

\* line 165
Thinking == Part("progress", <<>>, <<"Thinking...">>, FALSE)

\* lines 122 and 175: the onChunk callbacks relay the text unchanged
ChunkPart(text) == Part("chunk", text, <<>>, FALSE)

\* line 179
CancelNotice == Part("cancelled", <<>>, <<"Request cancelled">>, FALSE)

\* lines 129-130
Placeholder ==
    Part("fallback", <<>>, <<"The backend is not available yet", KOZANI_API_URL>>, TRUE)

\* lines 183-192
FallbackLines(label, prompt) ==
    << Part("fallback", <<>>, <<"Hello", label>>, FALSE),
       Part("fallback", <<>>, <<"You asked", prompt>>, FALSE),
       Part("fallback", <<>>, <<"---">>, FALSE),
       Part("fallback", <<>>, <<"GitHub Auth working!">>, FALSE),
       Part("fallback", <<>>, <<"Your GitHub token is ready">>, FALSE),
       Part("fallback", <<>>, <<"To complete the setup:">>, FALSE),
       Part("fallback", <<>>, <<"1. Start your backend server at", KOZANI_API_URL>>, TRUE),
       Part("fallback", <<>>, <<"2. Implement the POST /api/chat endpoint">>, FALSE),
       Part("fallback", <<>>, <<"3. Validate the GitHub token">>, FALSE) >>

\* lines 125-132: the provider's catch clause
ProviderCatch(error, sink) ==
    IF error.isError /\ error.name # "AbortError"
    THEN Append(sink, Placeholder)
    ELSE sink

\* lines 177-194: the participant's catch clause
ParticipantCatchSwapped(error, sink, label, prompt) ==
    IF error.isError /\ error.name # "AbortError"
    THEN Append(sink, CancelNotice)
    ELSE sink \o FallbackLines(label, prompt)
ParticipantCatchFallThrough(error, sink, label, prompt) ==
    (IF error.isError /\ error.name = "AbortError"
     THEN Append(sink, CancelNotice) ELSE sink) \o FallbackLines(label, prompt)
ParticipantCatch(error, sink, label, prompt) ==
    IF error.isError /\ error.name = "AbortError"
    THEN Append(sink, CancelNotice)
    ELSE sink \o FallbackLines(label, prompt)

\* ------------------------------------------------------ getGitHubSession
\* What vscode.authentication.getSession may do: with createIfNone it yields
\* a session or throws; without it, it may also yield undefined.
BrokerOutcomes(createIfNone) ==
    { [threw |-> FALSE, value |-> TheSession], [threw |-> TRUE, value |-> Undefined] }
    \cup (IF createIfNone THEN {} ELSE { [threw |-> FALSE, value |-> Undefined] })

\* lines 17-25: the promise getGitHubSession returns
GetGitHubSessionRethrow(broker) ==
    [rejected |-> broker.threw, value |-> broker.value]
GetGitHubSession(broker) ==
    [rejected |-> FALSE, value |-> IF broker.threw THEN Undefined ELSE broker.value]

\* lines 96, 157, 205: the createIfNone argument of each entry point
CreateIfNone(h) == h # "provider"

\* lines 97, 159: !session
NoSessionNever(s) == FALSE
NoSession(s) == s = Undefined

\* ------------------------------------------------------- request building
RECURSIVE Join(_)
Join(parts) ==
    IF parts = <<>> THEN ""
    ELSE (IF Head(parts).isText THEN Head(parts).value ELSE "") \o Join(Tail(parts))

\* lines 103-111
FormatMessages(msgs) ==
    [i \in 1..Len(msgs) |->
        [role |-> IF msgs[i].role = RoleUser THEN "user" ELSE "assistant",
         content |-> Join(msgs[i].content)]]

\* line 172
PromptMessages(p) == << [role |-> "user", content |-> p] >>

\* lines 36-44: the POST streamFromBackend issues
HttpRequest(msgs, token) ==
    [url |-> <<KOZANI_API_URL, "/api/chat">>, method |-> "POST",
     authorization |-> <<"Bearer", token>>, messages |-> msgs]
FetchTwice(sent, msgs, token) ==
    Append(Append(sent, HttpRequest(msgs, token)), HttpRequest(msgs, token))
Fetch(sent, msgs, token) == Append(sent, HttpRequest(msgs, token))


\* ------------------------------------------------------------------ state
VARIABLES
    handler,          \* the entry point invoked
    messages,         \* provider: the messages argument
    prompt,           \* participant: request.prompt
    pc,               \* where the invocation stands
    session,          \* the value getGitHubSession resolved with
    brokerThrew,      \* the identity broker threw
    handlerRejected,  \* the entry point's own promise rejected
    cancelled,        \* the host's cancellation token has fired
    subscribed,       \* the listener of lines 115 / 169 is registered
    deferred,         \* the token had fired before the listener was registered
    aborted,          \* abortController.abort() has run
    requests,         \* the HTTP requests issued
    status,           \* the status of the response (0: none yet)
    received,         \* the chunks reader.read() has returned
    decoder,          \* the TextDecoder of line 55
    calls,            \* the texts onChunk was invoked with
    ui,               \* what reached the host's sink
    settled,          \* streamFromBackend: "none", "pending", "resolved", "rejected"
    thrown,           \* the value the catch clause received
    info              \* showInformationMessage calls

vars == << handler, messages, prompt, pc, session, brokerThrew, handlerRejected,
           cancelled, subscribed, deferred, aborted, requests, status, received,
           decoder, calls, ui, settled, thrown, info >>

Handlers == {"provider", "participant", "signIn"}

Init ==
    /\ handler \in Handlers
    /\ messages \in (IF handler = "provider" THEN SeqsUpTo(HostMessages, MaxMsgs) ELSE {<<>>})
    /\ prompt \in (IF handler = "participant" THEN Prompts ELSE {""})
    /\ pc = "awaitSession"
    /\ session = Undefined
    /\ brokerThrew = FALSE
    /\ handlerRejected = FALSE
    /\ cancelled = FALSE
    /\ subscribed = FALSE
    /\ deferred = FALSE
    /\ aborted = FALSE
    /\ requests = <<>>
    /\ status = 0
    /\ received = <<>>
    /\ decoder = FreshDecoder
    /\ calls = <<>>
    /\ ui = <<>>
    /\ settled = "none"
    /\ thrown = NoThrow
    /\ info = <<>>

RECURSIVE Flatten(_)
Flatten(ss) == IF ss = <<>> THEN <<>> ELSE Head(ss) \o Flatten(Tail(ss))

\* ------------------------------------------------------- the entry points
\* lines 96-100 and 157-162: getGitHubSession gave no session.
NoSessionReturn ==
    /\ pc = "awaitSession"
    /\ handler \in {"provider", "participant"}
    /\ \E broker \in BrokerOutcomes(CreateIfNone(handler)) :
         LET got == GetGitHubSession(broker)
         IN  /\ got.rejected \/ NoSession(got.value)
             /\ brokerThrew' = broker.threw
             /\ handlerRejected' = got.rejected
             /\ session' = Undefined
             /\ ui' = IF got.rejected THEN ui ELSE Append(ui, SignInPrompt(handler))
    /\ pc' = "done"
    /\ UNCHANGED << handler, messages, prompt, cancelled, subscribed, deferred, aborted,
                    requests, status, received, decoder, calls, settled, thrown, info >>

\* The synchronous start of streamFromBackend up to its await of fetch
\* (lines 114-117 / 168-171 and 36-44).  A listener registered on a token that
\* has already fired is not run by the registration itself.
StartRequest(msgs, sink) ==
    /\ subscribed' = TRUE
    /\ deferred' = cancelled
    /\ requests' = Fetch(requests, msgs, session'.accessToken)
    /\ settled' = "pending"
    /\ ui' = sink
    /\ pc' = "awaitFetch"

\* lines 96-124
ProviderStart ==
    /\ pc = "awaitSession"
    /\ handler = "provider"
    /\ \E broker \in BrokerOutcomes(CreateIfNone(handler)) :
         LET got == GetGitHubSession(broker)
         IN  /\ ~got.rejected /\ ~NoSession(got.value)
             /\ brokerThrew' = broker.threw
             /\ session' = got.value
    /\ StartRequest(FormatMessages(messages), ui)
    /\ UNCHANGED << handler, messages, prompt, handlerRejected, cancelled, aborted,
                    status, received, decoder, calls, thrown, info >>

\* lines 157-176
ParticipantStart ==
    /\ pc = "awaitSession"
    /\ handler = "participant"
    /\ \E broker \in BrokerOutcomes(CreateIfNone(handler)) :
         LET got == GetGitHubSession(broker)
         IN  /\ ~got.rejected /\ ~NoSession(got.value)
             /\ brokerThrew' = broker.threw
             /\ session' = got.value
    /\ StartRequest(PromptMessages(prompt), Append(ui, Thinking))
    /\ UNCHANGED << handler, messages, prompt, handlerRejected, cancelled, aborted,
                    status, received, decoder, calls, thrown, info >>

\* lines 204-209
SignInCommand ==
    /\ pc = "awaitSession"
    /\ handler = "signIn"
    /\ \E broker \in BrokerOutcomes(CreateIfNone(handler)) :
         LET got == GetGitHubSession(broker)
         IN  /\ brokerThrew' = broker.threw
             /\ handlerRejected' = got.rejected
             /\ session' = IF got.rejected THEN Undefined ELSE got.value
             /\ info' = IF ~got.rejected /\ ~NoSession(got.value)
                        THEN Append(info, <<"Signed in as", got.value.label>>)
                        ELSE info
    /\ pc' = "done"
    /\ UNCHANGED << handler, messages, prompt, cancelled, subscribed, deferred, aborted,
                    requests, status, received, decoder, calls, ui, settled, thrown >>


\* ------------------------------------------------------------ cancellation
\* The host fires the cancellation token.  A registered listener runs at once
\* and calls abortController.abort() (lines 115 / 169).
Cancel ==
    /\ handler \in {"provider", "participant"}
    /\ pc # "done"
    /\ ~cancelled
    /\ cancelled' = TRUE
    /\ aborted' = subscribed
    /\ UNCHANGED << handler, messages, prompt, pc, session, brokerThrew, handlerRejected,
                    subscribed, deferred, requests, status, received, decoder, calls,
                    ui, settled, thrown, info >>

\* The host runs, later, the listener that was registered after the token
\* had fired.
DeliverLateCancel ==
    /\ deferred
    /\ pc \in {"awaitFetch", "reading"}
    /\ deferred' = FALSE
    /\ aborted' = TRUE
    /\ UNCHANGED << handler, messages, prompt, pc, session, brokerThrew, handlerRejected,
                    cancelled, subscribed, requests, status, received, decoder, calls,
                    ui, settled, thrown, info >>

\* ------------------------------------------------------- streamFromBackend
\* The awaited streamFromBackend rejects with err and the handler's catch
\* clause runs (lines 125-132 / 177-194); the handler then returns.
Caught(err) ==
    /\ settled' = "rejected"
    /\ thrown' = err
    /\ ui' = IF handler = "provider"
             THEN ProviderCatch(err, ui)
             ELSE ParticipantCatch(err, ui, session.label, prompt)
    /\ pc' = "done"

\* The signal aborts the pending fetch or the pending read: it rejects with
\* the signal's reason, an AbortError (line 43).
Aborts ==
    /\ aborted
    /\ pc \in {"awaitFetch", "reading"}
    /\ Caught(AbortError)
    /\ UNCHANGED << handler, messages, prompt, session, brokerThrew, handlerRejected,
                    cancelled, subscribed, deferred, aborted, requests, status, received,
                    decoder, calls, info >>

\* line 36: fetch rejects (network failure)
FetchFails ==
    /\ pc = "awaitFetch"
    /\ ~aborted
    /\ \E err \in NetworkErrors : Caught(err)
    /\ UNCHANGED << handler, messages, prompt, session, brokerThrew, handlerRejected,
                    cancelled, subscribed, deferred, aborted, requests, status, received,
                    decoder, calls, info >>

\* lines 46-48: the response is not ok
FetchNotOk ==
    /\ pc = "awaitFetch"
    /\ ~aborted
    /\ \E code \in StatusCodes :
         /\ ~ResponseOk(code)
         /\ status' = code
         /\ Caught(ApiError(code))
    /\ UNCHANGED << handler, messages, prompt, session, brokerThrew, handlerRejected,
                    cancelled, subscribed, deferred, aborted, requests, received,
                    decoder, calls, info >>

\* lines 50-53: the response is ok and has no body
FetchNoBody ==
    /\ pc = "awaitFetch"
    /\ ~aborted
    /\ \E code \in StatusCodes :
         /\ ResponseOk(code)
         /\ status' = code
    /\ Caught(NoBodyError)
    /\ UNCHANGED << handler, messages, prompt, session, brokerThrew, handlerRejected,
                    cancelled, subscribed, deferred, aborted, requests, received,
                    decoder, calls, info >>

\* lines 46-55: the response is ok and has a body; the read loop starts
FetchOk ==
    /\ pc = "awaitFetch"
    /\ ~aborted
    /\ \E code \in StatusCodes :
         /\ ResponseOk(code)
         /\ status' = code
    /\ decoder' = FreshDecoder
    /\ pc' = "reading"
    /\ UNCHANGED << handler, messages, prompt, session, brokerThrew, handlerRejected,
                    cancelled, subscribed, deferred, aborted, requests, received,
                    calls, ui, settled, thrown, info >>

BytesReceived == Len(Flatten(received))

\* lines 57-60: reader.read() yields a chunk; it is decoded and handed to
\* onChunk, which reports it to the sink (lines 122 / 175).
ReadChunk ==
    /\ pc = "reading"
    /\ ~aborted
    /\ Len(received) < MaxChunks
    /\ \E value \in SeqsUpTo(BodyBytes, MaxBytes - BytesReceived) :
         LET d == Decode(decoder, value)
         IN  /\ received' = Append(received, value)
             /\ decoder' = d.dec
             /\ calls' = Append(calls, d.text)
             /\ ui' = Append(ui, ChunkPart(d.text))
    /\ UNCHANGED << handler, messages, prompt, pc, session, brokerThrew, handlerRejected,
                    cancelled, subscribed, deferred, aborted, requests, status,
                    settled, thrown, info >>

\* lines 57-58: reader.read() reports done; streamFromBackend resolves and
\* the handler returns.
ReadDone ==
    /\ pc = "reading"
    /\ ~aborted
    /\ settled' = "resolved"
    /\ pc' = "done"
    /\ UNCHANGED << handler, messages, prompt, session, brokerThrew, handlerRejected,
                    cancelled, subscribed, deferred, aborted, requests, status, received,
                    decoder, calls, ui, thrown, info >>

\* line 57: reader.read() rejects (the connection breaks mid-stream)
ReadFails ==
    /\ pc = "reading"
    /\ ~aborted
    /\ \E err \in NetworkErrors : Caught(err)
    /\ UNCHANGED << handler, messages, prompt, session, brokerThrew, handlerRejected,
                    cancelled, subscribed, deferred, aborted, requests, status, received,
                    decoder, calls, info >>

Next ==
    \/ NoSessionReturn
    \/ ProviderStart
    \/ ParticipantStart
    \/ SignInCommand
    \/ Cancel
    \/ DeliverLateCancel
    \/ Aborts
    \/ FetchFails
    \/ FetchNotOk
    \/ FetchNoBody
    \/ FetchOk
    \/ ReadChunk
    \/ ReadDone
    \/ ReadFails

Spec == Init /\ [][Next]_vars


\* ================================================================ claims
Kinds(sink) == {sink[i].kind : i \in DOMAIN sink}
Notices == {"signin", "cancelled", "fallback"}
Count(sink, kind) == Cardinality({i \in DOMAIN sink : sink[i].kind = kind})
NamesBackendUrl(sink) ==
    \E i \in DOMAIN sink : sink[i].kind = "fallback" /\ sink[i].namesUrl
IsChunk(part) == part.kind = "chunk"
ChunkTexts(sink) ==
    LET chunks == SelectSeq(sink, IsChunk)
    IN  [i \in DOMAIN chunks |-> chunks[i].text]
InHandler == handler \in {"provider", "participant"}

\* C1: in both handlers, when getGitHubSession gives no session,
\* streamFromBackend is never called, no HTTP request is issued, and once the
\* handler has returned the sign-in prompt is the only output.
UnauthenticatedIssuesNoRequest ==
    (InHandler /\ session = Undefined) =>
        /\ requests = <<>>
        /\ settled = "none"
        /\ calls = <<>>
        /\ pc = "done" => ui = <<SignInPrompt(handler)>>

UnauthenticatedWitness ==
    /\ handler = "participant"
    /\ pc = "done"
    /\ session = Undefined
    /\ ui = <<SignInPrompt("participant")>>
    /\ requests = <<>>

\* C2: in both handlers, once the cancellation token has fired during the
\* invocation, no chunk callback runs after abort() has run and the
\* backend-unavailable fallback is not emitted.
CancelStopsChunksAndFallback ==
    [][ /\ aborted => calls' = calls
        /\ cancelled' => "fallback" \notin Kinds(ui') ]_vars

\* C3 as claimed: onChunk runs once per chunk read, in arrival order, each time
\* with the content of that chunk alone: nothing merged, dropped or held back.
ChunksRelayedVerbatim ==
    /\ Len(calls) = Len(received)
    /\ \A i \in DOMAIN calls : calls[i] = DecodeFlushing(FreshDecoder, received[i]).text

\* C3 as amended: onChunk runs once per chunk read, in arrival order, and is
\* relayed unchanged to the sink; the texts, concatenated, are the streaming
\* UTF-8 decoding of all the bytes received so far, a trailing incomplete
\* sequence being held back for the next chunk; once the stream has reported
\* done (or the request has failed) no further onChunk call happens.
ChunksDecodedInOrder ==
    /\ [](/\ Len(calls) = Len(received)
          /\ ChunkTexts(ui) = calls
          /\ Flatten(calls) = DecodeWith(FreshDecoder, Flatten(received), TRUE).text
          /\ DecodeWith(FreshDecoder, Flatten(received), TRUE).dec.needed = decoder.needed)
    /\ [][pc = "done" => calls' = calls]_vars

\* a two-byte character split over two chunks: the first text is empty, the
\* second carries the whole character
SplitCharacterWitness ==
    /\ Len(received) = 2
    /\ received[1] = <<195>>
    /\ received[2] = <<169>>
    /\ calls = << <<>>, <<233>> >>
    /\ pc = "done"

\* C4: on a non-2xx response streamFromBackend rejects with an Error that
\* carries the status code, and onChunk is never invoked for that request.
NonOkStatusRejects ==
    (status # 0 /\ status \notin 200..299) =>
        /\ settled = "rejected"
        /\ thrown.isError
        /\ thrown.status = status
        /\ calls = <<>>
        /\ received = <<>>

NonOkWitness ==
    /\ status = 404
    /\ settled = "rejected"
    /\ thrown = ApiError(404)
    /\ pc = "done"

EndedByAbort == pc = "done" /\ settled = "rejected" /\ thrown = AbortError

\* C5 as claimed: a request that ends with an AbortError makes the handler
\* emit the 'request cancelled' notice, in the provider as in the participant.
CancelNoticeInBothHandlers ==
    EndedByAbort => "cancelled" \in Kinds(ui)

\* C5 as amended: a request that ends with an AbortError makes the chat
\* participant emit the 'request cancelled' notice, once and last; the
\* language-model provider emits no notice at all for it.
CancelNoticeInParticipantOnly ==
    EndedByAbort =>
        IF handler = "participant"
        THEN /\ Count(ui, "cancelled") = 1
             /\ ui[Len(ui)] = CancelNotice
             /\ "fallback" \notin Kinds(ui)
        ELSE Kinds(ui) \cap Notices = {}

CancelNoticeWitness ==
    /\ EndedByAbort
    /\ handler = "participant"
    /\ received # <<>>
    /\ ui[Len(ui)] = CancelNotice

\* C6: a request made with a session that fails with anything but an
\* AbortError makes the handler emit the fallback naming the backend URL, in
\* both handlers and for every kind of thrown value.
FallbackOnEveryFailure ==
    (pc = "done" /\ settled = "rejected" /\ ~(thrown.isError /\ thrown.name = "AbortError"))
        => NamesBackendUrl(ui)

\* C7: every HTTP request issued carries a non-empty message list.
RequestsCarryMessages ==
    \A i \in DOMAIN requests : requests[i].messages # <<>>

\* C8: an invocation issues at most one HTTP request over its whole lifetime:
\* one exactly when streamFromBackend was called, none otherwise, and never a
\* second one after a failure or a cancellation.
AtMostOneRequest ==
    /\ Len(requests) <= 1
    /\ (requests = <<>>) <=> (settled = "none")

OneRequestAfterFailureWitness ==
    /\ pc = "done"
    /\ settled = "rejected"
    /\ cancelled
    /\ Len(requests) = 1

\* C9: getGitHubSession never rejects; when the identity broker throws it
\* resolves with undefined, so the handlers answer with the sign-in prompt and
\* issue no request, and the sign-in command shows no message.
BrokerFailureIsNoSession ==
    /\ ~handlerRejected
    /\ brokerThrew =>
          /\ session = Undefined
          /\ requests = <<>>
          /\ info = <<>>
          /\ ui = IF InHandler THEN <<SignInPrompt(handler)>> ELSE <<>>

BrokerFailureWitness ==
    /\ brokerThrew
    /\ handler = "provider"
    /\ pc = "done"
    /\ ui = <<SignInPrompt("provider")>>

\* C10: in every invocation at most one of the three notices (sign-in prompt,
\* 'request cancelled', fallback) is emitted; it is emitted only once
\* streamFromBackend has settled or when it was never called; no chunk
\* reaches the sink after it; a stream that ends normally emits none.
NoticesExclusiveAndFinal ==
    /\ Cardinality(Kinds(ui) \cap Notices) <= 1
    /\ Count(ui, "signin") <= 1
    /\ Count(ui, "cancelled") <= 1
    /\ (Kinds(ui) \cap Notices # {}) => (pc = "done" /\ settled \in {"none", "rejected"})
    /\ "signin" \in Kinds(ui) => settled = "none"
    /\ \A i, j \in DOMAIN ui :
          (i < j /\ ui[i].kind \in Notices) => ui[j].kind # "chunk"
    /\ settled = "resolved" => Kinds(ui) \cap Notices = {}

ChunksThenNoticeWitness ==
    /\ pc = "done"
    /\ handler = "participant"
    /\ settled = "rejected"
    /\ Len(received) = 2
    /\ "fallback" \in Kinds(ui)

====
